---- MODULE Spec2Model ----
(***************************************************************************)
(* metarbot: the command dispatch loop of src/bin/metarbot.rs, the owner   *)
(* matcher (src/util/mod.rs and its copy in src/bin/metarbot.rs) and the   *)
(* privileged commands (src/modules/ircactions.rs and their copies in      *)
(* src/bin/metarbot.rs).                                                   *)
(*                                                                         *)
(* Strings are sequences of one-character strings, so that prefixes,       *)
(* tokens, case and glob patterns are computed and not assumed.            *)
(***************************************************************************)
EXTENDS Integers, Sequences, FiniteSets, TLC

VARIABLES
    pc,          \* position of main: "loop", "done" (break), "failed" (returned Err), "off"
    eos,         \* the inbound stream has yielded end-of-stream
    fused,       \* whether the transport stream reports is_terminated after its end
    stream,      \* the messages the remote end may send
    owners,      \* Vec<Prefix> parsed from the "owners" option
    leader,      \* the "leader" option
    futures,     \* the in-flight set: task id -> task record
    readyq,      \* ids of tasks whose future is ready, in the order they became ready
    sent,        \* outbound actions issued on the connection, in order
    warns,       \* diagnostics (warn!) emitted, in order
    dispatched,  \* history: ids pushed into futures, in order
    observed,    \* history: ids whose result the loop has taken out of futures, in order
    completion,  \* history: ids in the order their futures became ready
    nrecv,       \* history: number of messages the stream has delivered
    last,        \* history: what the loop took from the stream last
    call,        \* pure-function harness: the function applied and its inputs
    ret          \* pure-function harness: its result

vars == <<pc, eos, fused, stream, owners, leader, futures, readyq, sent, warns,
          dispatched, observed, completion, nrecv, last, call, ret>>

loopvars == <<pc, eos, fused, stream, owners, leader, futures, readyq, sent, warns,
              dispatched, observed, completion, nrecv, last>>

None == [tag |-> "None"]
Some(x) == [tag |-> "Some", val |-> x]

(***************************************************************************)
(* Bounds of the model.                                                    *)
(***************************************************************************)
MaxOwners == 2      \* longest owner-rule list drawn for is_owner
MaxMsgs == 2        \* inbound messages the stream delivers in one run

(***************************************************************************)
(* Sequence helpers.                                                       *)
(***************************************************************************)
SeqsUpTo(S, n) == UNION {[1..k -> S] : k \in 0..n}

Range(s) == {s[i] : i \in DOMAIN s}

DropFirst(s, k) == SubSeq(s, k + 1, Len(s))

starts_with(s, p) == Len(p) <= Len(s) /\ SubSeq(s, 1, Len(p)) = p

(***************************************************************************)
(* glob::Pattern, for the patterns the model draws: literal characters,    *)
(* "?", single "*", and "[" that opens a character class.  No drawn        *)
(* pattern holds "]", so every "[" is an unclosed class and a syntax error.*)
(***************************************************************************)
\* glob::Pattern::new(pattern).is_ok()
Pattern_new_ok(pattern) ==
    \A i \in DOMAIN pattern :
        pattern[i] = "[" =>
            LET from == IF i + 1 <= Len(pattern) /\ pattern[i + 1] = "!"
                        THEN i + 3 ELSE i + 2
            IN  \E j \in from..Len(pattern) : pattern[j] = "]"

\* Pattern::matches(haystack) for a compiled pattern of Char, AnyChar, AnySequence
RECURSIVE Pattern_matches(_, _)
Pattern_matches(pattern, haystack) ==
    IF pattern = <<>> THEN haystack = <<>>
    ELSE IF Head(pattern) = "*"
         THEN \E k \in 0..Len(haystack) :
                  Pattern_matches(Tail(pattern), DropFirst(haystack, k))
    ELSE IF haystack = <<>> THEN FALSE
    ELSE IF Head(pattern) = "?"
         THEN Pattern_matches(Tail(pattern), Tail(haystack))
    ELSE Head(pattern) = Head(haystack)
         /\ Pattern_matches(Tail(pattern), Tail(haystack))

\* a mutant: a pattern that does not compile is taken to match (fails open)
compile_and_test_failopen(pattern, haystack) ==
    IF ~Pattern_new_ok(pattern) THEN TRUE
    ELSE Pattern_matches(pattern, haystack)

\* the closure compile_and_test of util::is_owner; the three inlined
\* Pattern::new / matches pairs of the binary's is_owner do the same
compile_and_test(pattern, haystack) ==
    IF ~Pattern_new_ok(pattern) THEN FALSE
    ELSE Pattern_matches(pattern, haystack)

(***************************************************************************)
(* irc::proto::Prefix                                                      *)
(***************************************************************************)
Nickname(n, u, h) == [type |-> "Nickname", nick |-> n, user |-> u, host |-> h]
ServerName(n) == [type |-> "ServerName", nick |-> n, user |-> <<>>, host |-> <<>>]

\* Prefix::new_from_str, one character at a time;
\* st = [name, user, host, active, is_server]
RECURSIVE prefix_scan(_, _)
prefix_scan(s, st) ==
    IF s = <<>> THEN st
    ELSE LET c == Head(s)
             st1 == IF c = "." /\ st.active = "Name"
                    THEN [st EXCEPT !.is_server = TRUE] ELSE st
             st2 == IF c = "!" /\ st1.active = "Name"
                    THEN [st1 EXCEPT !.is_server = FALSE, !.active = "User"]
                    ELSE IF c = "@" /\ st1.active # "Host"
                    THEN [st1 EXCEPT !.is_server = FALSE, !.active = "Host"]
                    ELSE IF st1.active = "Name"
                    THEN [st1 EXCEPT !.name = Append(@, c)]
                    ELSE IF st1.active = "User"
                    THEN [st1 EXCEPT !.user = Append(@, c)]
                    ELSE [st1 EXCEPT !.host = Append(@, c)]
         IN  prefix_scan(Tail(s), st2)

Prefix_new_from_str(s) ==
    LET st == prefix_scan(s, [name |-> <<>>, user |-> <<>>, host |-> <<>>,
                              active |-> "Name", is_server |-> FALSE])
    IN  IF st.is_server THEN ServerName(st.name)
        ELSE Nickname(st.name, st.user, st.host)

\* str::split(";"): the pieces between separators, empty pieces kept
RECURSIVE split(_, _)
split(s, sep) ==
    IF \A i \in DOMAIN s : s[i] # sep THEN <<s>>
    ELSE LET i == CHOOSE k \in DOMAIN s :
                      s[k] = sep /\ \A j \in 1..(k - 1) : s[j] # sep
         IN  <<SubSeq(s, 1, i - 1)>> \o split(DropFirst(s, i), sep)

\* main: the owners vector built from the "owners" option (absent: "")
parse_owners(opt) ==
    LET raw == IF opt = None THEN <<>> ELSE opt.val
        parts == split(raw, ";")
    IN  [i \in DOMAIN parts |-> Prefix_new_from_str(parts[i])]

(***************************************************************************)
(* is_owner, src/util/mod.rs                                               *)
(***************************************************************************)
all_empty(owner) == owner.nick = <<>> /\ owner.user = <<>> /\ owner.host = <<>>

\* a mutant: the all-empty rule is not skipped
owner_grants_noinert(owner, prefix) ==
    IF owner.type # "Nickname" THEN FALSE
    ELSE IF owner.nick # <<>> /\ ~compile_and_test(owner.nick, prefix.nick) THEN FALSE
    ELSE IF owner.user # <<>> /\ ~compile_and_test(owner.user, prefix.user) THEN FALSE
    ELSE IF owner.host # <<>> /\ ~compile_and_test(owner.host, prefix.host) THEN FALSE
    ELSE TRUE

\* one iteration of the for loop: TRUE is "return true", FALSE is "continue"
owner_grants(owner, prefix) ==
    IF owner.type # "Nickname" THEN FALSE
    ELSE IF all_empty(owner) THEN FALSE
    ELSE IF owner.nick # <<>> /\ ~compile_and_test(owner.nick, prefix.nick) THEN FALSE
    ELSE IF owner.user # <<>> /\ ~compile_and_test(owner.user, prefix.user) THEN FALSE
    ELSE IF owner.host # <<>> /\ ~compile_and_test(owner.host, prefix.host) THEN FALSE
    ELSE TRUE

RECURSIVE owners_scan(_, _)
owners_scan(prefix, rules) ==
    IF rules = <<>> THEN FALSE
    ELSE IF owner_grants(Head(rules), prefix) THEN TRUE
    ELSE owners_scan(prefix, Tail(rules))

\* a mutant: a server name is matched like a nickname
is_owner_noservercheck(prefix, rules) == owners_scan(prefix, rules)

\* a mutant: only the first rule is looked at
is_owner_firstonly(prefix, rules) ==
    IF prefix.type = "ServerName" THEN FALSE
    ELSE rules # <<>> /\ owner_grants(Head(rules), prefix)

is_owner(prefix, rules) ==
    IF prefix.type = "ServerName" THEN FALSE
    ELSE owners_scan(prefix, rules)

(***************************************************************************)
(* is_owner, src/bin/metarbot.rs: the same scan with the all-empty test    *)
(* after the three field tests.                                            *)
(***************************************************************************)
bin_owner_grants(owner, prefix) ==
    IF owner.type # "Nickname" THEN FALSE
    ELSE IF owner.nick # <<>> /\ ~Pattern_new_ok(owner.nick) THEN FALSE
    ELSE IF owner.nick # <<>> /\ ~Pattern_matches(owner.nick, prefix.nick) THEN FALSE
    ELSE IF owner.user # <<>> /\ ~Pattern_new_ok(owner.user) THEN FALSE
    ELSE IF owner.user # <<>> /\ ~Pattern_matches(owner.user, prefix.user) THEN FALSE
    ELSE IF owner.host # <<>> /\ ~Pattern_new_ok(owner.host) THEN FALSE
    ELSE IF owner.host # <<>> /\ ~Pattern_matches(owner.host, prefix.host) THEN FALSE
    ELSE IF all_empty(owner) THEN FALSE
    ELSE TRUE

RECURSIVE bin_owners_scan(_, _)
bin_owners_scan(prefix, rules) ==
    IF rules = <<>> THEN FALSE
    ELSE IF bin_owner_grants(Head(rules), prefix) THEN TRUE
    ELSE bin_owners_scan(prefix, Tail(rules))

bin_is_owner(prefix, rules) ==
    IF prefix.type = "ServerName" THEN FALSE
    ELSE bin_owners_scan(prefix, rules)

(***************************************************************************)
(* String constants of the program.                                        *)
(***************************************************************************)
w_metar == <<"m", "e", "t", "a", "r">>
w_taf == <<"t", "a", "f">>
w_quit == <<"q", "u", "i", "t">>
w_join == <<"j", "o", "i", "n">>
w_part == <<"p", "a", "r", "t">>
default_leader == <<"&">>

\* char::to_lowercase on the letters the model draws
lower_char(c) ==
    CASE c = "M" -> "m" [] c = "E" -> "e" [] c = "T" -> "t" [] c = "A" -> "a"
      [] c = "R" -> "r" [] c = "Q" -> "q" [] c = "U" -> "u" [] c = "I" -> "i"
      [] c = "K" -> "k" [] c = "J" -> "j" [] c = "F" -> "f" [] c = "B" -> "b"
      [] OTHER -> c

\* a mutant: the trigger is looked up as typed
to_lowercase_identity(s) == s

to_lowercase(s) == [i \in DOMAIN s |-> lower_char(s[i])]

is_whitespace(c) == c \in {" ", "\t"}

\* str::split_whitespace: the maximal runs of non-whitespace, in order
RECURSIVE split_whitespace(_)
split_whitespace(s) ==
    IF s = <<>> THEN <<>>
    ELSE IF is_whitespace(Head(s)) THEN split_whitespace(Tail(s))
    ELSE LET stop == IF \E k \in DOMAIN s : is_whitespace(s[k])
                     THEN (CHOOSE k \in DOMAIN s :
                              is_whitespace(s[k])
                              /\ \A j \in 1..(k - 1) : ~is_whitespace(s[j])) - 1
                     ELSE Len(s)
         IN  <<SubSeq(s, 1, stop)>> \o split_whitespace(DropFirst(s, stop))

\* str::trim_start_matches(pat), pat not empty: every leading repetition goes
RECURSIVE trim_start_matches(_, _)
trim_start_matches(s, pat) ==
    IF pat # <<>> /\ starts_with(s, pat)
    THEN trim_start_matches(DropFirst(s, Len(pat)), pat)
    ELSE s

\* [String]::join(" ")
RECURSIVE join(_, _)
join(parts, sep) ==
    IF parts = <<>> THEN <<>>
    ELSE IF Len(parts) = 1 THEN parts[1]
    ELSE parts[1] \o sep \o join(Tail(parts), sep)

\* ChannelExt::is_channel_name
is_channel_name(target) ==
    target # <<>> /\ target[1] \in {"#", "&", "+", "!"}

is_public(target) == is_channel_name(target)

(***************************************************************************)
(* irc::proto::Message, as far as the program reads it.                    *)
(***************************************************************************)
Message(pfx, cmd, target, text) ==
    [prefix |-> pfx, command |-> cmd, target |-> target, text |-> text]

source_nickname(message) ==
    IF message.prefix # None /\ message.prefix.val.type = "Nickname"
    THEN Some(message.prefix.val.nick)
    ELSE None

response_target(message) ==
    IF message.command \in {"PRIVMSG", "NOTICE"} /\ is_channel_name(message.target)
    THEN Some(message.target)
    ELSE source_nickname(message)

(***************************************************************************)
(* BotResponse, BotError and BotCommandResult.                             *)
(***************************************************************************)
Ignore == [variant |-> "Ignore"]
Quit(msg) == [variant |-> "Quit", message |-> msg]
Part(ch, comment) == [variant |-> "Part", channel |-> ch, comment |-> comment]
Join(ch) == [variant |-> "Join", channel |-> ch]
Privmsg(t, m) == [variant |-> "Privmsg", target |-> t, message |-> m]
Notice(t, m) == [variant |-> "Notice", target |-> t, message |-> m]

Ok(resp) == [kind |-> "Ok", resp |-> resp]
Err(e) == [kind |-> "Err", err |-> e]
\* a future suspended on its HTTP request (handle_metar_taf with a valid airport)
Await(target, airport, wtype) ==
    [kind |-> "Await", target |-> target, airport |-> airport, wtype |-> wtype]

BotParameters(message, ldr, own, args) ==
    [message |-> message, leader |-> ldr, owners |-> own, args |-> args]

\* the prefix handed to is_owner: message.prefix, or Prefix::new_from_str("")
sender_prefix(params) ==
    IF params.message.prefix = None THEN Prefix_new_from_str(<<>>)
    ELSE params.message.prefix.val

not_authorized(command) ==
    <<"You are not authorized to use the ">> \o command \o <<" command">>

(***************************************************************************)
(* The privileged commands of src/bin/metarbot.rs.                         *)
(***************************************************************************)
\* a mutant: the owner test is not inverted, a non-owner gets the action
handle_quit_inverted(params) ==
    IF bin_is_owner(sender_prefix(params), params.owners)
    THEN IF source_nickname(params.message) # None
         THEN Ok(Notice(source_nickname(params.message).val, not_authorized(w_quit)))
         ELSE Ok(Ignore)
    ELSE Ok(Quit(IF Len(params.args) > 0
                 THEN Some(join(params.args, <<" ">>)) ELSE None))

handle_quit(params) ==
    IF ~bin_is_owner(sender_prefix(params), params.owners)
    THEN IF source_nickname(params.message) # None
         THEN Ok(Notice(source_nickname(params.message).val, not_authorized(w_quit)))
         ELSE Ok(Ignore)
    ELSE Ok(Quit(IF Len(params.args) > 0
                 THEN Some(join(params.args, <<" ">>)) ELSE None))

handle_join(params) ==
    IF ~bin_is_owner(sender_prefix(params), params.owners)
    THEN IF source_nickname(params.message) # None
         THEN Ok(Notice(source_nickname(params.message).val, not_authorized(w_join)))
         ELSE Ok(Ignore)
    ELSE IF Len(params.args) > 0
         THEN Ok(Join(params.args[1]))
         ELSE Ok(Ignore)

\* the denial text of handle_part names the join command (line 299), and a
\* missing response target is NoResponseTarget (line 316)
handle_part(params) ==
    IF ~bin_is_owner(sender_prefix(params), params.owners)
    THEN IF source_nickname(params.message) # None
         THEN Ok(Notice(source_nickname(params.message).val, not_authorized(w_join)))
         ELSE Ok(Ignore)
    ELSE LET rt == response_target(params.message)
             channel == IF Len(params.args) > 0 THEN Ok(params.args[1])
                        ELSE IF rt # None
                        THEN IF is_public(rt.val) THEN Ok(rt.val)
                             ELSE Err("NoChannelToPart")
                        ELSE Err("NoResponseTarget")
             comment == IF Len(params.args) > 1
                        THEN Some(join(Tail(params.args), <<" ">>)) ELSE None
         IN  IF channel.kind = "Err" THEN channel
             ELSE Ok(Part(channel.resp, comment))

(***************************************************************************)
(* The privileged commands of src/modules/ircactions.rs.                   *)
(***************************************************************************)
\* a mutant: a sender without a nickname makes the command fail
ensure_owner_failing(command, params) ==
    IF ~is_owner(sender_prefix(params), params.owners)
    THEN IF source_nickname(params.message) # None
         THEN Some(Ok(Notice(source_nickname(params.message).val,
                             not_authorized(command))))
         ELSE Some(Err("NoResponseTarget"))
    ELSE None

ensure_owner(command, params) ==
    IF ~is_owner(sender_prefix(params), params.owners)
    THEN IF source_nickname(params.message) # None
         THEN Some(Ok(Notice(source_nickname(params.message).val,
                             not_authorized(command))))
         ELSE Some(Ok(Ignore))
    ELSE None

IrcJoinCommand_handle(params) ==
    LET botcommand == ensure_owner(w_join, params)
    IN  IF botcommand # None THEN botcommand.val
        ELSE IF Len(params.args) > 0 THEN Ok(Join(params.args[1]))
        ELSE Ok(Ignore)

IrcPartCommand_handle(params) ==
    LET botcommand == ensure_owner(w_part, params)
        rt == response_target(params.message)
        channel == IF Len(params.args) > 0 THEN Ok(params.args[1])
                   ELSE IF rt # None
                   THEN IF is_public(rt.val) THEN Ok(rt.val)
                        ELSE Err("NoChannelToPart")
                   ELSE Err("NoChannelToPart")
        comment == IF Len(params.args) > 1
                   THEN Some(join(Tail(params.args), <<" ">>)) ELSE None
    IN  IF botcommand # None THEN botcommand.val
        ELSE IF channel.kind = "Err" THEN channel
        ELSE Ok(Part(channel.resp, comment))

IrcQuitCommand_handle(params) ==
    LET botcommand == ensure_owner(w_quit, params)
    IN  IF botcommand # None THEN botcommand.val
        ELSE Ok(Quit(IF Len(params.args) > 0
                     THEN Some(join(params.args, <<" ">>)) ELSE None))

(***************************************************************************)
(* handle_metar_taf of src/bin/metarbot.rs: up to its first await, and     *)
(* from the reply of the HTTP request to its result.                       *)
(***************************************************************************)
AlnumChars == {"a", "b", "e", "f", "i", "j", "k", "m", "q", "r", "t", "u", "z",
               "A", "B", "E", "F", "I", "J", "K", "M", "Q", "R", "T", "U",
               "0", "1"}

\* AIRPORT_RE: ^(?i)[a-z0-9]{4}$
AIRPORT_RE_is_match(s) == Len(s) = 4 /\ \A i \in DOMAIN s : s[i] \in AlnumChars

WeatherName(wtype) == IF wtype = "METAR" THEN <<"M", "E", "T", "A", "R">>
                      ELSE <<"T", "A", "F">>

handle_metar_taf(wtype, params) ==
    LET rt == response_target(params.message)
    IN  IF rt = None THEN Err("NoResponseTarget")
        ELSE IF Len(params.args) > 0 /\ AIRPORT_RE_is_match(params.args[1])
        THEN Await(rt.val, params.args[1], wtype)
        ELSE Ok(Privmsg(rt.val,
                        <<"Usage: ">> \o params.leader
                            \o to_lowercase(WeatherName(wtype))
                            \o <<" <4-letter ICAO airport code>">>))

\* what the HTTP request can come back with
HttpOutcomes == {"status", "report", "empty", "decode", "error"}

\* lines 158-191: every outcome of the request is a Privmsg to the target
metar_taf_reply(task, outcome) ==
    Ok(Privmsg(task.target,
        CASE outcome = "status" ->
                 task.airport \o <<" ">> \o WeatherName(task.wtype) \o <<" 503">>
          [] outcome = "report" -> <<"report of ">> \o task.airport
          [] outcome = "empty" ->
                 <<"No ">> \o WeatherName(task.wtype) \o <<" found for ">>
                     \o task.airport
          [] outcome = "decode" -> <<"Error decoding response: ">>
          [] OTHER ->
                 task.airport \o <<" ">> \o WeatherName(task.wtype) \o <<" timed out">>))

handle_metar(params) == handle_metar_taf("METAR", params)

handle_taf(params) == handle_metar_taf("TAF", params)

(***************************************************************************)
(* handle of src/modules/metar.rs: up to its first await, and from the     *)
(* result of weather() to its result.                                      *)
(***************************************************************************)
\* the parameters as metar.rs reads them: message, leaders, options, args
WeatherParameters(message, leaders, options, args) ==
    [message |-> message, leaders |-> leaders, options |-> options, args |-> args]

\* params.options.get
options_get(options, key) ==
    IF key \in DOMAIN options THEN Some(options[key]) ELSE None

\* line 181: params.leaders.get(0).map_or("", char::to_string)
first_leader(leaders) == IF leaders = <<>> THEN <<>> ELSE <<leaders[1]>>

\* a mutant: the option is looked up only when a request is to be made
metar_handle_late_key(type_, params) ==
    LET rt == response_target(params.message)
        apikey == options_get(params.options, "avwx_apikey")
    IN  IF rt = None THEN Err("NoResponseTarget")
        ELSE IF Len(params.args) > 0
        THEN IF AIRPORT_RE_is_match(params.args[1])
             THEN IF apikey = None THEN Err("Unconfigured")
                  ELSE Await(rt.val, params.args[1], type_)
             ELSE Ok(Privmsg(rt.val,
                      params.args[1]
                          \o <<" does not seem to be a valid ICAO airport code">>))
        ELSE Ok(Privmsg(rt.val,
                 <<"Usage: ">> \o first_leader(params.leaders)
                     \o to_lowercase(WeatherName(type_))
                     \o <<" <4-letter ICAO airport code>">>))

\* lines 152-184, up to `weather(type_, airport, apikey).await`
metar_handle(type_, params) ==
    LET rt == response_target(params.message)
        apikey == options_get(params.options, "avwx_apikey")
    IN  IF rt = None THEN Err("NoResponseTarget")
        ELSE IF apikey = None THEN Err("Unconfigured")
        ELSE IF Len(params.args) > 0
        THEN IF AIRPORT_RE_is_match(params.args[1])
             THEN Await(rt.val, params.args[1], type_)
             ELSE Ok(Privmsg(rt.val,
                      params.args[1]
                          \o <<" does not seem to be a valid ICAO airport code">>))
        ELSE Ok(Privmsg(rt.val,
                 <<"Usage: ">> \o first_leader(params.leaders)
                     \o to_lowercase(WeatherName(type_))
                     \o <<" <4-letter ICAO airport code>">>))

\* what weather() can return: the raw report, or one of the MetarErrors
WeatherOutcomes == {"raw", "NonSuccessResponse", "NoData", "ReqwestError"}

\* lines 164-169: the report, or "Error: " and the error, as a Privmsg
weather_reply(task, outcome) ==
    Ok(Privmsg(task.target,
        CASE outcome = "raw" -> <<"report of ">> \o task.airport
          [] outcome = "NonSuccessResponse" -> <<"Error: ", "503">>
          [] outcome = "NoData" ->
                 <<"Error: ">> \o task.airport \o <<" is not reporting weather">>
          [] OTHER -> <<"Error: ", "ReqwestError: ">>))

MetarCommand_handle(params) == metar_handle("METAR", params)

TafCommand_handle(params) == metar_handle("TAF", params)

(***************************************************************************)
(* main: the command table and the extraction of trigger and arguments.    *)
(***************************************************************************)
commands == [t \in {w_metar, w_taf, w_quit, w_join, w_part} |->
                CASE t = w_metar -> "handle_metar"
                  [] t = w_taf -> "handle_taf"
                  [] t = w_quit -> "handle_quit"
                  [] t = w_join -> "handle_join"
                  [] OTHER -> "handle_part"]

\* a mutant: a trigger that is not in the table runs the first command
commands_get_fallback(key) ==
    Some(IF key \in DOMAIN commands THEN commands[key] ELSE "handle_metar")

\* line 407: commands.get
commands_get(key) ==
    IF key \in DOMAIN commands THEN Some(commands[key]) ELSE None

\* calling the boxed handler with its parameters
run_handler(handler, params) ==
    CASE handler = "handle_metar" -> handle_metar(params)
      [] handler = "handle_taf" -> handle_taf(params)
      [] handler = "handle_quit" -> handle_quit(params)
      [] handler = "handle_join" -> handle_join(params)
      [] OTHER -> handle_part(params)

\* a mutant: the leader is never asked for
leader_missing_never(ldr, target, text) == FALSE

\* a mutant: the leader is asked for in direct messages too
leader_missing_everywhere(ldr, target, text) == ~starts_with(text, ldr)

\* lines 397-400: TRUE when the message is dropped for want of the leader
leader_missing(ldr, target, text) ==
    is_public(target) /\ ~starts_with(text, ldr)

\* a mutant: a text without a word asks for the usage of metar
tokens_of_usage(ldr, target, text) ==
    LET tokens == split_whitespace(IF is_public(target)
                                   THEN trim_start_matches(text, ldr) ELSE text)
    IN  IF tokens = <<>> THEN <<w_metar>> ELSE tokens

\* lines 401-404
tokens_of(ldr, target, text) ==
    split_whitespace(IF is_public(target) THEN trim_start_matches(text, ldr)
                     ELSE text)

\* lines 396-415 for one PRIVMSG: None when nothing is pushed, else the
\* handler and the parameters it is called with
dispatch_of(ldr, own, message) ==
    IF leader_missing(ldr, message.target, message.text) THEN None
    ELSE LET tokens == tokens_of(ldr, message.target, message.text)
         IN  IF tokens = <<>> THEN None
             ELSE LET handler == commands_get(to_lowercase(tokens[1]))
                  IN  IF handler = None THEN None
                      ELSE Some([handler |-> handler.val,
                                 params |-> BotParameters(
                                     message,
                                     IF is_public(message.target) THEN ldr ELSE <<>>,
                                     own,
                                     Tail(tokens))])

\* the warn! lines of one iteration of the for loop of is_owner: the first
\* tested field that does not compile (lines 217-219, 227-229, 237-239)
owner_warning(owner, prefix) ==
    IF owner.type # "Nickname" THEN <<>>
    ELSE IF owner.nick # <<>> /\ ~Pattern_new_ok(owner.nick) THEN <<owner.nick>>
    ELSE IF owner.nick # <<>> /\ ~Pattern_matches(owner.nick, prefix.nick) THEN <<>>
    ELSE IF owner.user # <<>> /\ ~Pattern_new_ok(owner.user) THEN <<owner.user>>
    ELSE IF owner.user # <<>> /\ ~Pattern_matches(owner.user, prefix.user) THEN <<>>
    ELSE IF owner.host # <<>> /\ ~Pattern_new_ok(owner.host) THEN <<owner.host>>
    ELSE <<>>

RECURSIVE is_owner_warnings(_, _)
is_owner_warnings(prefix, rules) ==
    IF prefix.type = "ServerName" \/ rules = <<>> THEN <<>>
    ELSE owner_warning(Head(rules), prefix)
         \o (IF bin_owner_grants(Head(rules), prefix) THEN <<>>
             ELSE is_owner_warnings(prefix, Tail(rules)))

\* the warnings a handler emits while it runs
handler_warnings(handler, params) ==
    IF handler \in {"handle_quit", "handle_join", "handle_part"}
    THEN LET w == is_owner_warnings(sender_prefix(params), params.owners)
         IN  [i \in DOMAIN w |-> [what |-> "Failed to compile pattern", arg |-> w[i]]]
    ELSE <<>>

(***************************************************************************)
(* handle_response: the outbound action of a response (None for Ignore).   *)
(***************************************************************************)
\* a mutant: a notice goes out as a message, a part without its comment
handle_response_blunt(response) ==
    CASE response.variant = "Ignore" -> None
      [] response.variant = "Quit" ->
             Some([op |-> "QUIT", a |-> response.message, b |-> None])
      [] response.variant = "Part" ->
             Some([op |-> "PART", a |-> Some(response.channel), b |-> None])
      [] response.variant = "Join" ->
             Some([op |-> "JOIN", a |-> Some(response.channel), b |-> None])
      [] OTHER ->
             Some([op |-> "PRIVMSG", a |-> Some(response.target),
                   b |-> Some(response.message)])

handle_response(response) ==
    CASE response.variant = "Ignore" -> None
      [] response.variant = "Quit" ->
             Some([op |-> "QUIT", a |-> response.message, b |-> None])
      [] response.variant = "Part" ->
             Some([op |-> "PART", a |-> Some(response.channel), b |-> response.comment])
      [] response.variant = "Join" ->
             Some([op |-> "JOIN", a |-> Some(response.channel), b |-> None])
      [] response.variant = "Privmsg" ->
             Some([op |-> "PRIVMSG", a |-> Some(response.target),
                   b |-> Some(response.message)])
      [] OTHER ->
             Some([op |-> "NOTICE", a |-> Some(response.target),
                   b |-> Some(response.message)])

(***************************************************************************)
(* Inputs of the dispatch loop.                                            *)
(***************************************************************************)
s_chan == <<"#", "c">>
s_bot == <<"b", "o", "t">>
id_a == Nickname(<<"a">>, <<"u">>, <<"h">>)
id_b == Nickname(<<"b">>, <<"u">>, <<"h">>)

\* the "owners" option of the loop runs: "[;a!*@*"
loop_owners_option == Some(<<"[", ";", "a", "!", "*", "@", "*">>)

\* the messages the stream delivers in the loop runs: each privileged
\* command from an owner, a non-owner and without a prefix, a weather
\* request, an unknown trigger, chatter, and a message that is no PRIVMSG
LoopMsgs == {
    Message(Some(id_a), "PRIVMSG", s_chan, <<"&", "q", "u", "i", "t", " ", "b", "y", "e">>),
    Message(Some(id_b), "PRIVMSG", s_chan, <<"&", "q", "u", "i", "t", " ", "b", "y", "e">>),
    Message(None, "PRIVMSG", s_chan, <<"&", "q", "u", "i", "t", " ", "b", "y", "e">>),
    Message(Some(id_a), "PRIVMSG", s_bot, <<"q", "u", "i", "t", " ", "b", "y", "e">>),
    Message(Some(id_b), "PRIVMSG", s_chan, <<"&", "M", "E", "T", "A", "R", " ", "K", "J", "F", "K">>),
    Message(Some(id_b), "PRIVMSG", s_bot, <<"t", "a", "f">>),
    Message(None, "PRIVMSG", s_bot, <<"m", "e", "t", "a", "r", " ", "K", "J", "F", "K">>),
    Message(Some(id_a), "PRIVMSG", s_chan, <<"&", "p", "a", "r", "t">>),
    Message(Some(id_a), "PRIVMSG", s_bot, <<"p", "a", "r", "t">>),
    Message(Some(id_a), "PRIVMSG", s_chan, <<"p", "a", "r", "t">>),
    Message(Some(id_a), "PRIVMSG", s_chan, <<"&", "j", "o", "i", "n", " ", "#", "x">>),
    Message(Some(id_a), "PRIVMSG", s_chan,
            <<"&", "p", "a", "r", "t", " ", "#", "x", " ", "s", "o", " ", "l", "o", "n", "g">>),
    Message(Some(id_b), "PRIVMSG", s_chan, <<"&", "f", "o", "o">>),
    Message(Some(id_b), "PRIVMSG", s_chan, <<"h", "e", "l", "l", "o">>),
    Message(None, "PING", <<>>, <<>>)}

\* the messages of the runs checked for liveness: a command that suspends,
\* one that is ready at once, one that fails, one that is dropped
LiveMsgs == {
    Message(Some(id_b), "PRIVMSG", s_chan,
            <<"&", "M", "E", "T", "A", "R", " ", "K", "J", "F", "K">>),
    Message(Some(id_a), "PRIVMSG", s_chan, <<"&", "q", "u", "i", "t", " ", "b", "y", "e">>),
    Message(Some(id_a), "PRIVMSG", s_bot, w_part),
    Message(Some(id_b), "PRIVMSG", s_chan, <<"h", "e", "l", "l", "o">>)}

(***************************************************************************)
(* The dispatch loop of main, lines 390-431.                               *)
(***************************************************************************)
InitWith(msgs) ==
    /\ pc = "loop"
    /\ eos = FALSE
    /\ fused \in BOOLEAN
    /\ stream = msgs
    /\ owners = parse_owners(loop_owners_option)
    /\ leader = default_leader
    /\ futures = {}
    /\ readyq = <<>>
    /\ sent = <<>>
    /\ warns = <<>>
    /\ dispatched = <<>>
    /\ observed = <<>>
    /\ completion = <<>>
    /\ nrecv = 0
    /\ last = None
    /\ call = None
    /\ ret = None

Init == InitWith(LoopMsgs)

\* the messages of the runs about texts without a word: the leader alone,
\* once and twice, with and without white space, empty and blank texts, and
\* two commands that are dispatched
EdgeMsgs == {
    Message(Some(id_a), "PRIVMSG", s_chan, <<"&">>),
    Message(Some(id_a), "PRIVMSG", s_chan, <<"&", "&">>),
    Message(Some(id_a), "PRIVMSG", s_chan, <<"&", " ", "\t">>),
    Message(Some(id_a), "PRIVMSG", s_chan, <<>>),
    Message(Some(id_a), "PRIVMSG", s_bot, <<"&">>),
    Message(Some(id_a), "PRIVMSG", s_bot, <<>>),
    Message(Some(id_a), "PRIVMSG", s_bot, <<" ", " ">>),
    Message(Some(id_b), "PRIVMSG", s_chan,
            <<"&", "M", "E", "T", "A", "R", " ", "K", "J", "F", "K">>),
    Message(Some(id_a), "PRIVMSG", s_chan, <<"&", "q", "u", "i", "t", " ", "b", "y", "e">>)}

Ids(h) == {h[i].id : i \in DOMAIN h}

\* a mutant: a command that is already in flight with the same parameters
\* is not pushed a second time
take_message_coalescing(message) ==
    LET d == IF message.command = "PRIVMSG"
             THEN dispatch_of(leader, owners, message) ELSE None
        id == Len(dispatched) + 1
    IN  /\ nrecv' = nrecv + 1
        /\ last' = Some(message)
        /\ IF d = None
           THEN UNCHANGED <<futures, readyq, dispatched, completion>>
           ELSE LET r == run_handler(d.val.handler, d.val.params)
                    twin == \E task \in futures :
                                task.handler = d.val.handler
                                /\ task.params = d.val.params
                IN  /\ futures' = IF twin THEN futures
                                  ELSE futures \cup
                                       {[id |-> id, handler |-> d.val.handler,
                                         params |-> d.val.params, state |-> r]}
                    /\ dispatched' = Append(dispatched,
                           [id |-> id, message |-> message, arrival |-> nrecv + 1,
                            handler |-> d.val.handler, args |-> d.val.params.args])
                    /\ readyq' = IF twin \/ r.kind = "Await" THEN readyq
                                 ELSE Append(readyq, id)
                    /\ completion' = IF twin \/ r.kind = "Await" THEN completion
                                     ELSE Append(completion, id)
        /\ UNCHANGED <<pc, eos, fused, stream, owners, leader, sent, warns, observed,
                       call, ret>>

\* lines 395-417: what the loop does with the message it took
take_message(message) ==
    LET d == IF message.command = "PRIVMSG"
             THEN dispatch_of(leader, owners, message) ELSE None
        id == Len(dispatched) + 1
    IN  /\ nrecv' = nrecv + 1
        /\ last' = Some(message)
        /\ IF d = None
           THEN UNCHANGED <<futures, readyq, dispatched, completion>>
           ELSE LET r == run_handler(d.val.handler, d.val.params)
                IN  /\ futures' = futures \cup
                           {[id |-> id, handler |-> d.val.handler,
                             params |-> d.val.params, state |-> r]}
                    /\ dispatched' = Append(dispatched,
                           [id |-> id, message |-> message, arrival |-> nrecv + 1,
                            handler |-> d.val.handler, args |-> d.val.params.args])
                    \* a future that never suspends is ready as soon as it is pushed
                    /\ readyq' = IF r.kind = "Await" THEN readyq
                                 ELSE Append(readyq, id)
                    /\ completion' = IF r.kind = "Await" THEN completion
                                     ELSE Append(completion, id)
        /\ UNCHANGED <<pc, eos, fused, stream, owners, leader, sent, warns, observed,
                       call, ret>>

\* a mutant: the handler is awaited in place, so no message is taken while a
\* task is in flight
RecvMessage_blocking ==
    /\ futures = {}
    /\ pc = "loop" /\ ~eos /\ nrecv < MaxMsgs
    /\ \E message \in stream : take_message(message)

\* line 394: the stream yields a message
RecvMessage ==
    /\ pc = "loop" /\ ~eos /\ nrecv < MaxMsgs
    /\ \E message \in stream : take_message(message)

\* line 395: the stream yields a transport error and `?` returns it
RecvError ==
    /\ pc = "loop" /\ ~eos
    /\ pc' = "failed"
    /\ UNCHANGED <<eos, fused, stream, owners, leader, futures, readyq, sent, warns,
                   dispatched, observed, completion, nrecv, last, call, ret>>

\* line 395: the stream yields None; nothing is done and the loop goes on
RecvEnd ==
    /\ pc = "loop" /\ (~eos \/ ~fused)
    /\ eos' = TRUE
    /\ UNCHANGED <<pc, fused, stream, owners, leader, futures, readyq, sent, warns,
                   dispatched, observed, completion, nrecv, last, call, ret>>

\* the HTTP request of a suspended handle_metar_taf comes back (its timeout
\* is 5 s) and the future becomes ready
IoComplete ==
    /\ pc = "loop"
    /\ \E task \in futures, outcome \in HttpOutcomes :
         /\ task.state.kind = "Await"
         /\ futures' = (futures \ {task})
                \cup {[task EXCEPT !.state = metar_taf_reply(task.state, outcome)]}
         /\ readyq' = Append(readyq, task.id)
         /\ completion' = Append(completion, task.id)
    /\ UNCHANGED <<pc, eos, fused, stream, owners, leader, sent, warns, dispatched,
                   observed, nrecv, last, call, ret>>

\* a mutant: the error of a command is reported to the channel
take_result_telling(task, send_ok) ==
    LET result == task.state
        action == IF result.kind = "Ok" THEN handle_response(result.resp)
                  ELSE Some([op |-> "PRIVMSG", a |-> Some(s_chan),
                             b |-> Some(<<result.err>>)])
    IN  /\ futures' = futures \ {task}
        /\ observed' = Append(observed,
               [id |-> task.id, result |-> result,
                applied |-> result.kind = "Ok",
                send_ok |-> send_ok])
        /\ warns' = warns
        /\ sent' = IF action # None /\ send_ok THEN Append(sent, action.val) ELSE sent

\* a mutant: a response the connection rejects goes back to the in-flight
\* set, and a response without action is logged as rejected
take_result_again(task, send_ok) ==
    LET result == task.state
        action == IF result.kind = "Ok" THEN handle_response(result.resp) ELSE None
    IN  /\ futures' = IF result.kind = "Ok" /\ ~send_ok THEN futures
                      ELSE futures \ {task}
        /\ observed' = Append(observed,
               [id |-> task.id, result |-> result,
                applied |-> result.kind = "Ok",
                send_ok |-> result.kind = "Err" \/ send_ok])
        /\ warns' = warns
        /\ sent' = IF action # None /\ send_ok THEN Append(sent, action.val) ELSE sent

\* lines 419-428 for the ready task `task`; send_ok is whether the
\* connection accepts the outbound action
take_result(task, send_ok) ==
    LET result == task.state
        action == IF result.kind = "Ok" THEN handle_response(result.resp) ELSE None
        ran == handler_warnings(task.handler, task.params)
    IN  /\ futures' = futures \ {task}
        /\ observed' = Append(observed,
               [id |-> task.id, result |-> result,
                applied |-> result.kind = "Ok",
                send_ok |-> action = None \/ send_ok])
        /\ IF result.kind = "Err"
           THEN /\ warns' = warns \o ran
                      \o <<[what |-> "error running command",
                            arg |-> <<result.err>>]>>
                /\ sent' = sent
           ELSE IF action # None /\ ~send_ok
           THEN /\ warns' = warns \o ran
                      \o <<[what |-> "error handling response", arg |-> <<>>]>>
                /\ sent' = sent
           ELSE /\ warns' = warns \o ran
                /\ sent' = IF action = None THEN sent ELSE Append(sent, action.val)

\* a mutant: results are taken in dispatch order, a ready task waits for
\* every task dispatched before it
Observe_in_dispatch_order ==
    /\ pc = "loop" /\ readyq # <<>>
    /\ \E task \in futures, send_ok \in BOOLEAN :
         /\ task.id = Head(readyq)
         /\ \A other \in futures : other.id >= task.id
         /\ readyq' = Tail(readyq)
         /\ take_result(task, send_ok)
    /\ UNCHANGED <<pc, eos, fused, stream, owners, leader, dispatched, completion,
                   nrecv, last, call, ret>>

\* a mutant: a ready result is still taken after main has returned the
\* error of the stream
Observe_after_return ==
    /\ pc \in {"loop", "failed"} /\ readyq # <<>>
    /\ \E task \in futures, send_ok \in BOOLEAN :
         /\ task.id = Head(readyq)
         /\ readyq' = Tail(readyq)
         /\ take_result(task, send_ok)
    /\ UNCHANGED <<pc, eos, fused, stream, owners, leader, dispatched, completion,
                   nrecv, last, call, ret>>

\* a mutant: of the ready results the one that became ready last is taken
Observe_newest_first ==
    /\ pc = "loop" /\ readyq # <<>>
    /\ \E task \in futures, send_ok \in BOOLEAN :
         /\ task.id = readyq[Len(readyq)]
         /\ readyq' = SubSeq(readyq, 1, Len(readyq) - 1)
         /\ take_result(task, send_ok)
    /\ UNCHANGED <<pc, eos, fused, stream, owners, leader, dispatched, completion,
                   nrecv, last, call, ret>>

\* line 419: futures.select_next_some() yields the result of the task that
\* became ready first
Observe ==
    /\ pc = "loop" /\ readyq # <<>>
    /\ \E task \in futures, send_ok \in BOOLEAN :
         /\ task.id = Head(readyq)
         /\ readyq' = Tail(readyq)
         /\ take_result(task, send_ok)
    /\ UNCHANGED <<pc, eos, fused, stream, owners, leader, dispatched, completion,
                   nrecv, last, call, ret>>

\* a mutant: the loop breaks at the end of the stream without draining
Complete_undrained ==
    /\ pc = "loop" /\ eos /\ fused
    /\ pc' = "done"
    /\ UNCHANGED <<eos, fused, stream, owners, leader, futures, readyq, sent, warns,
                   dispatched, observed, completion, nrecv, last, call, ret>>

\* line 429: every future of the select is terminated
Complete ==
    /\ pc = "loop" /\ eos /\ fused /\ futures = {}
    /\ pc' = "done"
    /\ UNCHANGED <<eos, fused, stream, owners, leader, futures, readyq, sent, warns,
                   dispatched, observed, completion, nrecv, last, call, ret>>

Next ==
    \/ RecvMessage
    \/ RecvError
    \/ RecvEnd
    \/ IoComplete
    \/ Observe
    \/ Complete

Spec == Init /\ [][Next]_vars

\* the loop, fed with the texts without a word
EdgeSpec == InitWith(EdgeMsgs) /\ [][Next]_vars

\* the select! takes a ready branch at random, and the HTTP request has a
\* timeout: a ready result is taken, and a suspended handler comes back
LiveSpec ==
    InitWith(LiveMsgs) /\ [][Next]_vars /\ WF_vars(Observe) /\ WF_vars(IoComplete)

(***************************************************************************)
(* The pure functions, applied to drawn inputs.  The loop is not running   *)
(* in these specifications.                                                *)
(***************************************************************************)
LoopOff ==
    /\ pc = "off"
    /\ eos = FALSE
    /\ fused = FALSE
    /\ stream = {}
    /\ owners = <<>>
    /\ leader = default_leader
    /\ futures = {}
    /\ readyq = <<>>
    /\ sent = <<>>
    /\ warns = <<>>
    /\ dispatched = <<>>
    /\ observed = <<>>
    /\ completion = <<>>
    /\ nrecv = 0
    /\ last = None

\* ---- is_owner ----
RuleNicks == {<<>>, <<"a">>, <<"a", "*">>, <<"[">>}
RuleUsers == {<<>>, <<"?">>, <<"u", "[">>}
RuleHosts == {<<>>, <<"*", "h">>}

OwnerRules ==
    {Nickname(n, u, h) : n \in RuleNicks, u \in RuleUsers, h \in RuleHosts}
    \cup {ServerName(<<"a", ".", "x">>)}

Identities ==
    {Nickname(n, u, h) : n \in {<<>>, <<"a">>, <<"a", "b">>},
                         u \in {<<>>, <<"u">>},
                         h \in {<<>>, <<"h">>, <<"x">>}}
    \cup {ServerName(<<"a", ".", "x">>), ServerName(<<"a">>)}

OwnerInit ==
    /\ LoopOff
    /\ call \in [fn : {"util::is_owner", "bin::is_owner"},
                 prefix : Identities,
                 owners : SeqsUpTo(OwnerRules, MaxOwners)]
    /\ ret = None

CallIsOwner ==
    /\ call.fn = "util::is_owner" /\ ret = None
    /\ ret' = Some(is_owner(call.prefix, call.owners))
    /\ UNCHANGED <<loopvars, call>>

CallBinIsOwner ==
    /\ call.fn = "bin::is_owner" /\ ret = None
    /\ ret' = Some(bin_is_owner(call.prefix, call.owners))
    /\ UNCHANGED <<loopvars, call>>

OwnerNext == CallIsOwner \/ CallBinIsOwner

OwnerSpec == OwnerInit /\ [][OwnerNext]_vars

\* ---- the privileged commands ----
MaxArgs == 2        \* most arguments drawn for a command

ArgTokens == {<<"#", "x">>, <<"B", "y", "e">>, <<"n", "o", "w">>}

CmdPrefixes == {None, Some(id_a), Some(id_b), Some(ServerName(<<"a", ".", "x">>)),
                Some(Nickname(<<>>, <<"u">>, <<"h">>))}

\* values of the "owners" option: absent, "a!*@*", "[;a", "*"
CmdOwnersOptions == {None, Some(<<"a", "!", "*", "@", "*">>), Some(<<"[", ";", "a">>), Some(<<"*">>)}

PrivilegedFns == {"handle_quit", "handle_join", "handle_part",
                  "IrcQuitCommand::handle", "IrcJoinCommand::handle",
                  "IrcPartCommand::handle"}

CmdInit ==
    /\ LoopOff
    /\ \E fn \in PrivilegedFns, p \in CmdPrefixes, t \in {s_chan, s_bot},
          o \in CmdOwnersOptions, args \in SeqsUpTo(ArgTokens, MaxArgs) :
         call = [fn |-> fn,
                 params |-> BotParameters(
                     Message(p, "PRIVMSG", t, join(args, <<" ">>)),
                     IF is_public(t) THEN default_leader ELSE <<>>,
                     parse_owners(o), args)]
    /\ ret = None

CallHandleQuit ==
    /\ call.fn = "handle_quit" /\ ret = None
    /\ ret' = Some(handle_quit(call.params))
    /\ UNCHANGED <<loopvars, call>>

CallHandleJoin ==
    /\ call.fn = "handle_join" /\ ret = None
    /\ ret' = Some(handle_join(call.params))
    /\ UNCHANGED <<loopvars, call>>

CallHandlePart ==
    /\ call.fn = "handle_part" /\ ret = None
    /\ ret' = Some(handle_part(call.params))
    /\ UNCHANGED <<loopvars, call>>

CallIrcQuit ==
    /\ call.fn = "IrcQuitCommand::handle" /\ ret = None
    /\ ret' = Some(IrcQuitCommand_handle(call.params))
    /\ UNCHANGED <<loopvars, call>>

CallIrcJoin ==
    /\ call.fn = "IrcJoinCommand::handle" /\ ret = None
    /\ ret' = Some(IrcJoinCommand_handle(call.params))
    /\ UNCHANGED <<loopvars, call>>

CallIrcPart ==
    /\ call.fn = "IrcPartCommand::handle" /\ ret = None
    /\ ret' = Some(IrcPartCommand_handle(call.params))
    /\ UNCHANGED <<loopvars, call>>

CmdNext ==
    \/ CallHandleQuit
    \/ CallHandleJoin
    \/ CallHandlePart
    \/ CallIrcQuit
    \/ CallIrcJoin
    \/ CallIrcPart

CmdSpec == CmdInit /\ [][CmdNext]_vars

\* ---- extraction of trigger and arguments ----
TriggerWords == {w_metar, <<"M", "E", "T", "A", "R">>, <<"M", "e", "t", "a", "r">>, w_taf, w_quit,
                 <<"Q", "u", "I", "t">>, <<"J", "O", "I", "N">>, w_part, <<"f", "o", "o">>}

ParseArgs == {<<"K", "J", "F", "K">>, <<"k", "j", "f", "k">>, <<"#", "x">>}

Leaders == {default_leader, <<"&", "!">>}

Separators == {<<" ">>, <<"\t">>, <<" ", " ">>}

RECURSIVE repeat(_, _)
repeat(s, n) == IF n = 0 THEN <<>> ELSE s \o repeat(s, n - 1)

\* the text: the leader nlead times, gap, the tokens joined by sep, trail
\* what the text is led by: the whole leader, or its first character only
lead_of(in) == IF in.piece = "whole" THEN in.leader ELSE <<in.leader[1]>>

text_of(in) ==
    repeat(lead_of(in), in.nlead) \o in.gap \o join(in.tokens, in.sep) \o in.trail

ParseInit ==
    /\ LoopOff
    /\ \E ldr \in Leaders, nlead \in 0..2, gap \in {<<>>, <<" ">>},
          trail \in {<<>>, <<" ">>}, sep \in Separators, t \in {s_chan, s_bot},
          word \in TriggerWords, args \in SeqsUpTo(ParseArgs, MaxArgs),
          none \in BOOLEAN, piece \in {"whole", "first"} :
         call = [fn |-> "dispatch", leader |-> ldr, piece |-> piece,
                 nlead |-> nlead, gap |-> gap,
                 trail |-> trail, sep |-> sep, target |-> t,
                 tokens |-> IF none THEN <<>> ELSE <<word>> \o args]
    /\ ret = None

\* lines 396-415 applied to the PRIVMSG with the drawn text
CallDispatch ==
    /\ call.fn = "dispatch" /\ ret = None
    /\ ret' = Some(dispatch_of(call.leader, <<>>,
                               Message(Some(id_a), "PRIVMSG", call.target,
                                       text_of(call))))
    /\ UNCHANGED <<loopvars, call>>

ParseNext == CallDispatch

ParseSpec == ParseInit /\ [][ParseNext]_vars

\* ---- a privileged command, from the message to its result ----
MsgWords == {w_quit, <<"Q", "U", "I", "T">>, w_part, w_join}

MsgPrefixes == {None, Some(id_a), Some(id_b)}

\* values of the "owners" option: absent, "a!*@*", "*"
MsgOwnersOptions == {None, Some(<<"a", "!", "*", "@", "*">>), Some(<<"*">>)}

\* the command of modules/ircactions.rs with the trigger of a handler of the
\* binary
run_module(handler, params) ==
    CASE handler = "handle_quit" -> IrcQuitCommand_handle(params)
      [] handler = "handle_join" -> IrcJoinCommand_handle(params)
      [] OTHER -> IrcPartCommand_handle(params)

MsgInit ==
    /\ LoopOff
    /\ \E impl \in {"bin", "modules"}, p \in MsgPrefixes, t \in {s_chan, s_bot},
          o \in MsgOwnersOptions, nlead \in 0..1, word \in MsgWords,
          args \in SeqsUpTo(ArgTokens, MaxArgs) :
         call = [fn |-> impl, prefix |-> p, target |-> t, owners |-> o,
                 nlead |-> nlead, tokens |-> <<word>> \o args]
    /\ ret = None

\* the PRIVMSG of the drawn call
message_of(c) ==
    Message(c.prefix, "PRIVMSG", c.target,
            repeat(default_leader, c.nlead) \o join(c.tokens, <<" ">>))

\* lines 396-415 for the message of the drawn call
dispatch_call(c) ==
    dispatch_of(default_leader, parse_owners(c.owners), message_of(c))

\* the handler that was pushed, its arguments and the result it ran to
ran_to(d, result) ==
    Some([handler |-> d.handler, args |-> d.params.args, result |-> result])

RunCommand ==
    /\ call.fn = "bin" /\ ret = None
    /\ LET d == dispatch_call(call)
       IN  ret' = Some(IF d = None THEN None
                       ELSE ran_to(d.val, run_handler(d.val.handler, d.val.params)))
    /\ UNCHANGED <<loopvars, call>>

RunModuleCommand ==
    /\ call.fn = "modules" /\ ret = None
    /\ LET d == dispatch_call(call)
       IN  ret' = Some(IF d = None THEN None
                       ELSE ran_to(d.val, run_module(d.val.handler, d.val.params)))
    /\ UNCHANGED <<loopvars, call>>

MsgNext == RunCommand \/ RunModuleCommand

MsgSpec == MsgInit /\ [][MsgNext]_vars

\* ---- the weather commands of modules/metar.rs ----
WeatherArgs == {<<"K", "J", "F", "K">>, <<"k", "j", "f", "1">>, <<"#", "x">>}

WeatherPrefixes == {None, Some(id_b), Some(ServerName(<<"a", ".", "x">>))}

\* the options of the configuration: none, the key, another option only
WeatherOptions == {<<>>, [o \in {"avwx_apikey"} |-> <<"k">>],
                   [o \in {"owners"} |-> <<"*">>]}

WeatherInit ==
    /\ LoopOff
    /\ \E fn \in {"MetarCommand::handle", "TafCommand::handle"},
          p \in WeatherPrefixes, t \in {s_chan, s_bot}, o \in WeatherOptions,
          l \in {default_leader, <<>>}, args \in SeqsUpTo(WeatherArgs, MaxArgs) :
         call = [fn |-> fn,
                 params |-> WeatherParameters(
                     Message(p, "PRIVMSG", t, join(args, <<" ">>)), l, o, args)]
    /\ ret = None

CallMetarCommand ==
    /\ call.fn = "MetarCommand::handle" /\ ret = None
    /\ ret' = Some(MetarCommand_handle(call.params))
    /\ UNCHANGED <<loopvars, call>>

CallTafCommand ==
    /\ call.fn = "TafCommand::handle" /\ ret = None
    /\ ret' = Some(TafCommand_handle(call.params))
    /\ UNCHANGED <<loopvars, call>>

\* weather() returns and the suspended handle completes
WeatherReturns ==
    /\ ret # None /\ ret.val.kind = "Await"
    /\ \E outcome \in WeatherOutcomes : ret' = Some(weather_reply(ret.val, outcome))
    /\ UNCHANGED <<loopvars, call>>

WeatherNext == CallMetarCommand \/ CallTafCommand \/ WeatherReturns

WeatherSpec == WeatherInit /\ [][WeatherNext]_vars

(***************************************************************************)
(* Properties of is_owner (OwnerSpec).                                     *)
(***************************************************************************)
OwnerFields == {"nick", "user", "host"}

\* the rule, read as the specification reads it: a triple that is not
\* all-empty and whose non-empty fields are valid globs matching the identity
RuleMatches(rule, identity) ==
    /\ rule.type = "Nickname"
    /\ \E f \in OwnerFields : rule[f] # <<>>
    /\ \A f \in OwnerFields :
           rule[f] = <<>>
           \/ (Pattern_new_ok(rule[f]) /\ Pattern_matches(rule[f], identity[f]))

apply_is_owner(fn, prefix, rules) ==
    IF fn = "util::is_owner" THEN is_owner(prefix, rules)
    ELSE bin_is_owner(prefix, rules)

\* C5: for a non-server identity, is_owner is true exactly when some rule of
\* the list is not all-empty and matches in each of its non-empty fields; and
\* the list cut after the first such rule already gives the result
C5_IsOwnerIffSomeRuleMatches ==
    (ret # None /\ call.prefix.type = "Nickname") =>
        /\ ret.val = (\E i \in DOMAIN call.owners :
                          RuleMatches(call.owners[i], call.prefix))
        /\ \A i \in DOMAIN call.owners :
               (/\ RuleMatches(call.owners[i], call.prefix)
                /\ \A j \in 1..(i - 1) : ~RuleMatches(call.owners[j], call.prefix))
               => apply_is_owner(call.fn, call.prefix, SubSeq(call.owners, 1, i))

\* a second rule grants, through a wildcard and an empty field, after a
\* first rule that does not
C5_Witness ==
    /\ ret = Some(TRUE)
    /\ Len(call.owners) = 2
    /\ ~RuleMatches(call.owners[1], call.prefix)
    /\ call.owners[2] = Nickname(<<"a", "*">>, <<>>, <<"*", "h">>)
    /\ call.prefix = Nickname(<<"a", "b">>, <<"u">>, <<"h">>)

AllEmptyRule == Nickname(<<>>, <<>>, <<>>)

\* C6: a list made only of all-empty rules grants nothing, and the owner list
\* of an absent "owners" option is one all-empty rule
C6_AllEmptyRulesGrantNothing ==
    /\ parse_owners(None) = <<AllEmptyRule>>
    /\ (ret # None /\ \A i \in DOMAIN call.owners : call.owners[i] = AllEmptyRule)
           => ret.val = FALSE

C6_Witness ==
    /\ ret = Some(FALSE)
    /\ call.owners = parse_owners(None)
    /\ call.prefix = Nickname(<<"a">>, <<"u">>, <<"h">>)

\* C7: a server name is never an owner
C7_ServerNeverOwner ==
    (ret # None /\ call.prefix.type = "ServerName") => ret.val = FALSE

\* a server name that the nickname pattern of a rule would match
C7_Witness ==
    /\ ret = Some(FALSE)
    /\ call.prefix = ServerName(<<"a">>)
    /\ call.owners = <<Nickname(<<"a">>, <<>>, <<>>)>>

HasInvalidGlob(rule) ==
    rule.type = "Nickname"
    /\ \E f \in OwnerFields : rule[f] # <<>> /\ ~Pattern_new_ok(rule[f])

\* C8: is_owner returns a boolean whatever the patterns are; a rule with a
\* field of invalid glob syntax grants nothing on its own, and the result is
\* that of the list without such rules
C8_InvalidGlobFailsClosed ==
    ret # None =>
        /\ ret.val \in BOOLEAN
        /\ \A i \in DOMAIN call.owners :
               HasInvalidGlob(call.owners[i])
               => ~apply_is_owner(call.fn, call.prefix, <<call.owners[i]>>)
        /\ ret.val = apply_is_owner(call.fn, call.prefix,
                         SelectSeq(call.owners, LAMBDA r : ~HasInvalidGlob(r)))

\* an invalid rule whose other fields match, then a valid rule that grants
C8_Witness ==
    /\ ret = Some(TRUE)
    /\ call.prefix = Nickname(<<"a">>, <<"u">>, <<"h">>)
    /\ call.owners = <<Nickname(<<"a">>, <<"u", "[">>, <<>>),
                       Nickname(<<"a">>, <<"?">>, <<>>)>>

(***************************************************************************)
(* Properties of the privileged commands (CmdSpec).                        *)
(***************************************************************************)
\* the owner test the called command uses
sender_is_owner(c) ==
    IF c.fn \in {"handle_quit", "handle_join", "handle_part"}
    THEN bin_is_owner(sender_prefix(c.params), c.params.owners)
    ELSE is_owner(sender_prefix(c.params), c.params.owners)

HasNickname(message) ==
    message.prefix # None /\ message.prefix.val.type = "Nickname"

\* C4: quit, join and part called by a sender that is no owner return a
\* Notice to the sender's nickname when the message has one and Ignore when
\* it has none: never Quit, Join or Part, never a failure
C4_NonOwnerGetsNoticeOrIgnore ==
    (ret # None /\ ~sender_is_owner(call)) =>
        /\ ret.val.kind = "Ok"
        /\ ret.val.resp.variant \notin {"Quit", "Join", "Part"}
        /\ IF HasNickname(call.params.message)
           THEN /\ ret.val.resp.variant = "Notice"
                /\ ret.val.resp.target = call.params.message.prefix.val.nick
           ELSE ret.val.resp = Ignore

\* part, with a channel argument, from a sender the rule "a!*@*" does not match
C4_Witness ==
    /\ ret # None
    /\ call.fn = "IrcPartCommand::handle"
    /\ call.params.message.prefix = Some(id_b)
    /\ call.params.owners = <<Nickname(<<"a">>, <<"*">>, <<"*">>)>>
    /\ Len(call.params.args) = 2
    /\ ret.val.kind = "Ok"
    /\ ret.val.resp.variant = "Notice"
    /\ ret.val.resp.target = <<"b">>

(***************************************************************************)
(* Properties of the extraction of trigger and arguments (ParseSpec).      *)
(***************************************************************************)
\* the drawn message passes the leader test of its target
Accepted(c) ==
    IF is_channel_name(c.target) THEN c.nlead >= 1 /\ lead_of(c) = c.leader
    ELSE c.nlead = 0

RECURSIVE actions_of(_)
actions_of(obs) ==
    IF obs = <<>> THEN <<>>
    ELSE LET o == Head(obs)
             a == IF o.applied THEN handle_response(o.result.resp) ELSE None
         IN  (IF a # None /\ o.send_ok THEN <<a.val>> ELSE <<>>)
             \o actions_of(Tail(obs))

\* C1: results are taken one time each and in the order the tasks became
\* ready, whatever the order of dispatch; each Response is applied when its
\* result is taken, so the connection has seen exactly the actions of the
\* results taken; and a ready result can be taken whatever else is in flight
C1_AppliedOnceInCompletionOrder ==
    /\ \A i, j \in DOMAIN observed : observed[i].id = observed[j].id => i = j
    /\ Len(observed) <= Len(completion)
    /\ \A i \in DOMAIN observed : observed[i].id = completion[i]
    /\ \A i \in DOMAIN observed : observed[i].applied = (observed[i].result.kind = "Ok")
    /\ \A task \in futures : task.id \notin Ids(observed)
    /\ sent = actions_of(observed)
    /\ (pc = "loop" /\ readyq # <<>>) => ENABLED Observe

\* the task dispatched second has been applied while the first is suspended
C1_Witness ==
    /\ Len(dispatched) = 2
    /\ Len(observed) = 1 /\ observed[1].id = 2 /\ observed[1].applied
    /\ Len(sent) = 1
    /\ \E task \in futures : task.id = 1 /\ task.state.kind = "Await"

\* C2 as stated: every task pushed has its result taken by the loop
C2_EveryTaskObserved ==
    \A id \in 1..MaxMsgs : (id \in Ids(dispatched)) ~> (id \in Ids(observed))

\* C2 as amended: every task pushed has its result taken by the loop, one
\* time, unless the loop has returned on a transport error before that
C2_EveryTaskObservedUnlessFailed ==
    /\ [](\A i, j \in DOMAIN observed : observed[i].id = observed[j].id => i = j)
    /\ [](pc = "done" => futures = {})
    /\ \A id \in 1..MaxMsgs :
           (id \in Ids(dispatched)) ~> (id \in Ids(observed) \/ pc = "failed")

\* both tasks taken, the second one first, the loop still running
C2_Witness ==
    /\ pc = "loop"
    /\ Ids(dispatched) = {1, 2}
    /\ Len(observed) = 2 /\ observed[1].id = 2 /\ observed[2].id = 1
    /\ futures = {}

\* C3: while the stream has a message to give, the loop can take it,
\* whatever is in flight
C3_DispatchNeverBlocks ==
    (pc = "loop" /\ ~eos /\ nrecv < MaxMsgs) => ENABLED RecvMessage

\* a second task was pushed while the first is suspended on its request
C3_Witness ==
    /\ Cardinality(futures) = 2
    /\ \E task \in futures : task.id = 1 /\ task.state.kind = "Await"
    /\ nrecv = 2

\* the loop took a PRIVMSG to a channel whose text does not begin with a
\* character of the leader
TookPublicWithoutLeader ==
    /\ nrecv' = nrecv + 1
    /\ last'.val.command = "PRIVMSG"
    /\ is_channel_name(last'.val.target)
    /\ (last'.val.text = <<>> \/ last'.val.text[1] \notin Range(leader))

\* C9: such a message changes nothing: no task, nothing sent, no diagnostic
C9_PublicWithoutLeaderDropped ==
    [][TookPublicWithoutLeader =>
           UNCHANGED <<futures, readyq, dispatched, completion, observed,
                       sent, warns, pc>>]_vars

\* "part" said in the channel by an owner, with a task in flight
C9_Witness ==
    /\ nrecv = 2
    /\ last = Some(Message(Some(id_a), "PRIVMSG", s_chan, w_part))
    /\ Len(dispatched) = 1
    /\ Cardinality(futures) = 1

RegisteredTriggers == {w_metar, w_taf, w_quit, w_join, w_part}

\* the first word of a message, after the leader where one is required
TriggerOf(message) ==
    LET tokens == tokens_of(leader, message.target, message.text)
    IN  IF tokens = <<>> THEN None ELSE Some(to_lowercase(tokens[1]))

\* the loop took a PRIVMSG whose trigger is no registered command
TookUnknownTrigger ==
    /\ nrecv' = nrecv + 1
    /\ last'.val.command = "PRIVMSG"
    /\ TriggerOf(last'.val) # None
    /\ TriggerOf(last'.val).val \notin RegisteredTriggers

\* C11: a message whose trigger matches no registered command changes
\* nothing: no task is pushed, nothing is sent, no warning is logged, the
\* loop runs on; and every task in the history is that of a registered trigger
C11_UnknownTriggerDiscarded ==
    /\ [][TookUnknownTrigger =>
              UNCHANGED <<futures, readyq, dispatched, completion, observed,
                          sent, warns, pc>>]_vars
    /\ [](\A i \in DOMAIN dispatched :
              /\ TriggerOf(dispatched[i].message) # None
              /\ TriggerOf(dispatched[i].message).val \in RegisteredTriggers)

\* "&foo" in the channel, after a command that was dispatched and applied
C11_Witness ==
    /\ nrecv = 2
    /\ last = Some(Message(Some(id_b), "PRIVMSG", s_chan, <<"&", "f", "o", "o">>))
    /\ Len(dispatched) = 1 /\ Len(observed) = 1 /\ Len(sent) = 1
    /\ futures = {} /\ warns = <<>> /\ pc = "loop"

(***************************************************************************)
(* Properties of a privileged command run from its message (MsgSpec).      *)
(***************************************************************************)
\* the identity the owner test sees for the sender of the drawn message
SenderIdentity(c) ==
    IF c.prefix = None THEN Nickname(<<>>, <<>>, <<>>) ELSE c.prefix.val

\* some rule of the "owners" option matches the sender of the drawn message
SenderIsOwner(c) ==
    LET rules == parse_owners(c.owners)
    IN  \E i \in DOMAIN rules : RuleMatches(rules[i], SenderIdentity(c))

\* C12: a direct message that begins with the trigger, without a leader, is
\* dispatched; and quit from an owner returns Quit with the arguments joined
\* by one space each, or Quit(None) when there are no arguments
C12_DirectQuitByOwner ==
    (ret # None /\ ~is_channel_name(call.target) /\ call.nlead = 0) =>
        /\ ret.val # None
        /\ ret.val.val.args = Tail(call.tokens)
        /\ (to_lowercase(call.tokens[1]) = w_quit /\ SenderIsOwner(call)) =>
               ret.val.val.result =
                   Ok(Quit(IF Len(call.tokens) = 1 THEN None
                           ELSE Some(join(Tail(call.tokens), <<" ">>))))

\* "quit Bye now" sent to the bot by a sender the rule "a!*@*" matches
C12_Witness ==
    /\ ret # None /\ ret.val # None
    /\ call.fn = "modules" /\ call.target = s_bot /\ call.nlead = 0
    /\ call.prefix = Some(id_a)
    /\ call.owners = Some(<<"a", "!", "*", "@", "*">>)
    /\ call.tokens = <<w_quit, <<"B", "y", "e">>, <<"n", "o", "w">>>>
    /\ ret.val.val.result = Ok(Quit(Some(<<"B", "y", "e", " ", "n", "o", "w">>)))

C14_TransportErrorEndsLoop ==
    /\ [][(pc = "loop" /\ pc' = "failed") =>
              UNCHANGED <<futures, readyq, dispatched, observed, sent, warns,
                          nrecv, last>>]_vars
    /\ [][pc = "failed" => UNCHANGED vars]_vars
    /\ [](pc = "failed" => ~ENABLED Next)

\* main has returned on the error with a ready task and a suspended task
\* in flight, their results never taken
C14_Witness ==
    /\ pc = "failed"
    /\ Cardinality(futures) = 2 /\ Len(readyq) = 1
    /\ \E task \in futures : task.state.kind = "Await"
    /\ observed = <<>> /\ sent = <<>>

(***************************************************************************)
(* Properties of the results the loop takes (Spec).                        *)
(***************************************************************************)
\* the entry of the result taken in this step
Taken == observed'[Len(observed')]

TookResult == Len(observed') = Len(observed) + 1

\* the loop is where it can take the next message and the next result
LoopServes ==
    /\ pc = "loop"
    /\ (~eos /\ nrecv < MaxMsgs) => ENABLED RecvMessage
    /\ readyq # <<>> => ENABLED Observe

\* C15: the step that takes a Failure sends nothing, logs the error as the
\* last warning, removes the task for good and leaves the loop running,
\* where messages and results are taken as before
C15_FailureOnlyLogged ==
    /\ [][(TookResult /\ Taken.result.kind = "Err") =>
              /\ sent' = sent
              /\ pc' = "loop"
              /\ Len(warns') > Len(warns)
              /\ warns'[Len(warns')] = [what |-> "error running command",
                                        arg |-> <<Taken.result.err>>]
              /\ dispatched' = dispatched
              /\ \A task \in futures' : task.id # Taken.id
              /\ \A i \in DOMAIN readyq' : readyq'[i] # Taken.id]_vars
    /\ []((pc = "loop" /\ \E i \in DOMAIN observed : observed[i].result.kind = "Err")
             => LoopServes)

\* a Failure was taken and logged, then the Response of a later task applied
C15_Witness ==
    /\ pc = "loop" /\ nrecv = 2
    /\ Len(observed) = 2
    /\ observed[1].result = Err("NoChannelToPart") /\ ~observed[1].applied
    /\ observed[2].applied /\ observed[2].id = 2
    /\ Len(sent) = 1
    /\ warns # <<>> /\ warns[Len(warns)].what = "error running command"

\* C16: the step in which the connection rejects the action of a Response
\* adds nothing to what was sent, logs the rejection as the last warning,
\* removes the task for good and leaves the loop running, where messages and
\* results are taken as before
C16_RejectedActionOnlyLogged ==
    /\ [][(TookResult /\ Taken.applied /\ ~Taken.send_ok) =>
              /\ sent' = sent
              /\ pc' = "loop"
              /\ Len(warns') > Len(warns)
              /\ warns'[Len(warns')].what = "error handling response"
              /\ dispatched' = dispatched
              /\ \A task \in futures' : task.id # Taken.id
              /\ \A i \in DOMAIN readyq' : readyq'[i] # Taken.id]_vars
    /\ [][(TookResult /\ Taken.applied /\ Taken.send_ok) =>
              \A i \in DOMAIN warns' :
                  i > Len(warns) => warns'[i].what # "error handling response"]_vars
    /\ []((pc = "loop" /\ \E i \in DOMAIN observed : ~observed[i].send_ok)
             => LoopServes)

\* the connection rejected the action of the first Response and accepted
\* that of the second
C16_Witness ==
    /\ pc = "loop" /\ nrecv = 2
    /\ Len(observed) = 2
    /\ observed[1].applied /\ ~observed[1].send_ok
    /\ observed[2].applied /\ observed[2].send_ok
    /\ Len(sent) = 1
    /\ \E i \in DOMAIN warns : warns[i].what = "error handling response"

\* the entry of the task pushed in this step
Pushed == dispatched'[Len(dispatched')]

\* C17: a task is pushed in the step that takes its message, so tasks enter
\* the in-flight set in the order their messages arrived; results are taken
\* in the order the tasks became ready, and that order alone
C17_DispatchInArrivalOrder ==
    /\ [][Len(dispatched') > Len(dispatched) =>
              /\ nrecv' = nrecv + 1
              /\ Pushed.arrival = nrecv' /\ Pushed.message = last'.val
              /\ Pushed.id = Len(dispatched')
              /\ \E task \in futures' \ futures : task.id = Pushed.id
              /\ SubSeq(dispatched', 1, Len(dispatched)) = dispatched]_vars
    /\ [](\A i, j \in DOMAIN dispatched :
              i < j => dispatched[i].arrival < dispatched[j].arrival)
    /\ [](Len(observed) <= Len(completion)
          /\ \A i \in DOMAIN observed : observed[i].id = completion[i])

\* two commands dispatched in the order they arrived, applied in the other
\* order, and the loop has broken
C17_Witness ==
    /\ pc = "done"
    /\ Len(dispatched) = 2
    /\ dispatched[1].arrival = 1 /\ dispatched[2].arrival = 2
    /\ Len(observed) = 2 /\ observed[1].id = 2 /\ observed[2].id = 1
    /\ Len(sent) = 2

\* the outbound actions the variants stand for
Disconnect(text) == [op |-> "QUIT", a |-> text, b |-> None]
Leave(channel, text) == [op |-> "PART", a |-> Some(channel), b |-> text]
Enter(channel) == [op |-> "JOIN", a |-> Some(channel), b |-> None]
Say(op, target, text) == [op |-> op, a |-> Some(target), b |-> Some(text)]

ExpectedActions(resp) ==
    CASE resp.variant = "Ignore" -> <<>>
      [] resp.variant = "Quit" -> <<Disconnect(resp.message)>>
      [] resp.variant = "Part" -> <<Leave(resp.channel, resp.comment)>>
      [] resp.variant = "Join" -> <<Enter(resp.channel)>>
      [] resp.variant = "Privmsg" -> <<Say("PRIVMSG", resp.target, resp.message)>>
      [] resp.variant = "Notice" -> <<Say("NOTICE", resp.target, resp.message)>>

\* C18: the step that applies a Response the connection accepts sends the
\* one action of its variant, with the fields of the Response, and none for
\* Ignore; the variants are the six of BotResponse
C18_OneActionPerVariant ==
    /\ [][(TookResult /\ Taken.applied /\ Taken.send_ok) =>
              sent' = sent \o ExpectedActions(Taken.result.resp)]_vars
    /\ [][TookResult => Len(sent') <= Len(sent) + 1]_vars
    /\ [](\A task \in futures :
              task.state.kind = "Ok" =>
                  task.state.resp.variant \in
                      {"Ignore", "Quit", "Part", "Join", "Privmsg", "Notice"})

\* a join and a part with a comment were applied
C18_Witness ==
    /\ Len(observed) = 2
    /\ sent = <<Enter(<<"#", "x">>),
                Leave(<<"#", "x">>, Some(<<"s", "o", " ", "l", "o", "n", "g">>))>>

(***************************************************************************)
(* Properties of the part command (CmdSpec).                               *)
(***************************************************************************)
\* C19: part called by an owner without arguments returns Part of the
\* channel the message was sent to, without comment, and the failure
\* NoChannelToPart when the message was not sent to a channel; with
\* arguments it returns Part of the first argument, the comment being the
\* other arguments joined by one space each, None when there are none
C19_PartByOwner ==
    (/\ ret # None
     /\ call.fn \in {"handle_part", "IrcPartCommand::handle"}
     /\ sender_is_owner(call)) =>
        LET args == call.params.args
            target == call.params.message.target
        IN  ret.val =
                IF args = <<>>
                THEN IF is_channel_name(target) THEN Ok(Part(target, None))
                     ELSE Err("NoChannelToPart")
                ELSE Ok(Part(args[1], IF Len(args) = 1 THEN None
                                      ELSE Some(join(Tail(args), <<" ">>))))

(***************************************************************************)
(* Properties of the weather commands of modules/metar.rs (WeatherSpec).   *)
(***************************************************************************)
KeyAbsent(c) == "avwx_apikey" \notin DOMAIN c.params.options

\* the reply has nowhere to go: a direct message whose sender has no nickname
NoTarget(c) ==
    ~is_channel_name(c.params.message.target) /\ ~HasNickname(c.params.message)

\* C20 as stated: without the key the command fails with Unconfigured,
\* whatever the arguments; without a response target it fails with
\* NoResponseTarget
C20_UnconfiguredWhateverElse ==
    ret # None =>
        /\ KeyAbsent(call) => ret.val = Err("Unconfigured")
        /\ NoTarget(call) => ret.val = Err("NoResponseTarget")

\* C20 as amended: without a response target the command fails with
\* NoResponseTarget, with or without the key; with a response target and
\* without the key it fails with Unconfigured, whatever the arguments; with
\* both it does not fail
C20_TargetFirstThenKey ==
    ret # None =>
        /\ NoTarget(call) => ret.val = Err("NoResponseTarget")
        /\ (~NoTarget(call) /\ KeyAbsent(call)) => ret.val = Err("Unconfigured")
        /\ (~NoTarget(call) /\ ~KeyAbsent(call)) => ret.val.kind \in {"Await", "Ok"}

\* "taf KJFK" in the channel, another option set but not the key
C20_Witness ==
    /\ ret = Some(Err("Unconfigured"))
    /\ call.fn = "TafCommand::handle"
    /\ call.params.message.target = s_chan
    /\ call.params.args = <<<<"K", "J", "F", "K">>>>
    /\ DOMAIN call.params.options = {"owners"}

(***************************************************************************)
(* Properties of the leader (ParseSpec).                                   *)
(***************************************************************************)
\* the text begins with one of the characters of the leader
LedByLeaderChar(c) ==
    text_of(c) # <<>> /\ text_of(c)[1] \in Range(c.leader)

\* the words of the text once its first character is taken off
WordsPastFirst(c) == split_whitespace(Tail(text_of(c)))

\* C21: a message to a channel is dropped when its first character is none
\* of the leader characters, and one that begins with any of them and goes
\* on with a registered trigger is dispatched
C21_AnyLeaderCharAccepts ==
    (ret # None /\ is_channel_name(call.target)) =>
        /\ ~LedByLeaderChar(call) => ret.val = None
        /\ (/\ LedByLeaderChar(call)
            /\ WordsPastFirst(call) # <<>>
            /\ to_lowercase(WordsPastFirst(call)[1]) \in RegisteredTriggers)
           => ret.val # None

\* C22: with a leader of one character, a message to a channel has exactly
\* its one leading leader character removed: the trigger is the first word
\* of what follows that character, so a text with the leader repeated has a
\* trigger that begins with the leader, matches no command and is dropped
C22_OneLeaderCharRemoved ==
    (/\ ret # None
     /\ is_channel_name(call.target)
     /\ Len(call.leader) = 1
     /\ LedByLeaderChar(call)) =>
        IF WordsPastFirst(call) # <<>>
           /\ to_lowercase(WordsPastFirst(call)[1]) \in RegisteredTriggers
        THEN /\ ret.val # None
             /\ ret.val.val.handler = commands[to_lowercase(WordsPastFirst(call)[1])]
             /\ ret.val.val.params.args = Tail(WordsPastFirst(call))
        ELSE ret.val = None

\* C23: a direct message that begins with the leader character has that
\* character removed before it is split: it selects the command of the first
\* word after it and passes on the words after that, as the same text
\* without the leader does
C23_DirectLeaderStripped ==
    (/\ ret # None
     /\ ~is_channel_name(call.target)
     /\ Len(call.leader) = 1
     /\ LedByLeaderChar(call)
     /\ WordsPastFirst(call) # <<>>
     /\ to_lowercase(WordsPastFirst(call)[1]) \in RegisteredTriggers) =>
        /\ ret.val # None
        /\ ret.val.val.handler = commands[to_lowercase(WordsPastFirst(call)[1])]
        /\ ret.val.val.params.args = Tail(WordsPastFirst(call))

(***************************************************************************)
(* Properties of the in-flight set (Spec).                                 *)
(***************************************************************************)
InFlightIds == {task.id : task \in futures}

\* C24: every dispatch is one entry of its own: the tasks dispatched are
\* those in flight and those whose result was taken, no task is both, no two
\* entries are one task, and a ready task is in flight until it is taken
C24_OneEntryPerDispatch ==
    /\ Len(dispatched) = Cardinality(futures) + Len(observed)
    /\ \A i \in DOMAIN dispatched : dispatched[i].id = i
    /\ InFlightIds \cup Ids(observed) = 1..Len(dispatched)
    /\ InFlightIds \cap Ids(observed) = {}
    /\ Cardinality(InFlightIds) = Cardinality(futures)
    /\ Cardinality(Ids(observed)) = Len(observed)
    /\ \A i \in DOMAIN readyq : readyq[i] \in InFlightIds

\* the same request was made two times: the result of one of the two tasks
\* was taken and applied, the other task is suspended on its own request
C24_Witness ==
    /\ Len(dispatched) = 2
    /\ dispatched[1].message = dispatched[2].message
    /\ Len(observed) = 1 /\ observed[1].applied /\ Len(sent) = 1
    /\ \E task \in futures : task.state.kind = "Await"

(***************************************************************************)
(* Properties of texts without a word (EdgeSpec).                          *)
(***************************************************************************)
RECURSIVE PastLeaders(_)
\* the text without the leader characters it begins with
PastLeaders(text) ==
    IF text # <<>> /\ text[1] \in Range(leader) THEN PastLeaders(Tail(text))
    ELSE text

\* nothing but white space is left of the text once the leader is removed
Wordless(text) ==
    \A i \in DOMAIN PastLeaders(text) : is_whitespace(PastLeaders(text)[i])

TookWordless ==
    /\ nrecv' = nrecv + 1
    /\ last'.val.command = "PRIVMSG"
    /\ Wordless(last'.val.text)

\* C25: a message whose text has no word once the leader is removed changes
\* nothing: no task is pushed, no result is taken, nothing is sent or
\* logged, and the loop is where it was and goes on serving
C25_WordlessTextDispatchesNothing ==
    /\ [][TookWordless =>
              UNCHANGED <<futures, readyq, dispatched, completion, observed,
                          sent, warns, pc>>]_vars
    /\ []((pc = "loop" /\ last # None /\ Wordless(last.val.text)) => LoopServes)

\* the leader alone was said in the channel while a request is suspended
C25_Witness ==
    /\ nrecv = 2 /\ pc = "loop"
    /\ last = Some(Message(Some(id_a), "PRIVMSG", s_chan, <<"&">>))
    /\ Len(dispatched) = 1
    /\ \E task \in futures : task.state.kind = "Await"
    /\ sent = <<>> /\ warns = <<>>

(***************************************************************************)
(* Properties of the owner test of the privileged commands (CmdSpec).      *)
(***************************************************************************)
\* C26: quit, join and part called for a message without sender prefix
\* never return Quit, Join or Part, whatever the owner rules are
C26_NoPrefixNeverOwner ==
    (ret # None /\ call.params.message.prefix = None) =>
        ~(ret.val.kind = "Ok" /\ ret.val.resp.variant \in {"Quit", "Join", "Part"})

\* the trigger of the command a call invokes
InvokedTrigger(fn) ==
    CASE fn \in {"handle_quit", "IrcQuitCommand::handle"} -> w_quit
      [] fn \in {"handle_join", "IrcJoinCommand::handle"} -> w_join
      [] fn \in {"handle_part", "IrcPartCommand::handle"} -> w_part

\* C27: the Notice a sender with a nickname gets when it is no owner is sent
\* to that nickname and reads "You are not authorized to use the <trigger>
\* command", with the trigger of the command that was invoked
C27_NoticeNamesTheCommand ==
    (ret # None /\ ~sender_is_owner(call) /\ HasNickname(call.params.message)) =>
        ret.val = Ok(Notice(call.params.message.prefix.val.nick,
                            <<"You are not authorized to use the ">>
                                \o InvokedTrigger(call.fn) \o <<" command">>))

====
